---- MODULE Spec2Model ----
(***************************************************************************)
(* Message routing and provider dispatch of the Telegram bot bridge:       *)
(* BotService (handleMessage, handleCustomCommand, the chat history store) *)
(* and LlmService (generateResponse and its four provider adapters).       *)
(*                                                                         *)
(* A text is a sequence of string fragments (single characters where the   *)
(* code looks inside the text, one fragment for a fixed sentence).  An     *)
(* optional value (a TypeScript `x?`) is the empty set when absent and a   *)
(* singleton when present.                                                 *)
(***************************************************************************)
EXTENDS Integers, Sequences, FiniteSets, TLC

VARIABLES
  settings,     \* BotService.settings, read-only after the constructor
  llmConfig,    \* LlmService.llmConfig, read-only after the constructor
  chatHistory,  \* BotService.chatHistory: chat id -> texts, keys created lazily
  roles,        \* history variable: who wrote each entry of chatHistory
  log,          \* history variable: every text appended to a chat since it was last cleared
  handlers,     \* the handleMessage invocations in flight, one per slot
  last,         \* record of the handleMessage invocation that ended in the latest step
  generated,    \* the latest direct call of LlmService.generateResponse and how it settled
  configFile,   \* the configuration file: whether it can be read and the document in it
  configService, \* ConfigService: not constructed, construction failed, or its config
  controller,   \* TelegramController, once constructed: its webhookEnabled flag
  webhooks      \* the webhook requests received, in the order of their arrival

\* the variables of ConfigService and TelegramController
webVars == <<configFile, configService, controller, webhooks>>

vars == <<settings, llmConfig, chatHistory, roles, log, handlers, last, generated,
          configFile, configService, controller, webhooks>>

----------------------------------------------------------------------------
(* Bounds of the model *)

\* maxHistoryLength of the model; the program's value is 10 (bot.service.ts:21)
HistoryScale == 2
\* addToChatHistory calls on one chat beyond the store's limit (store specification)
ExtraAppends == 2
\* entries the routed messages append, over all chats, between two resets
MaxAppended == 6
\* length of the history passed to a direct call of LlmService.generateResponse
MaxHistoryArg == 3
\* webhook requests a controller receives
MaxRequests == 2

----------------------------------------------------------------------------
(* Optional values *)

Absent == {}
Some(v) == {v}
IsPresent(o) == o # {}
Val(o) == CHOOSE v \in o : TRUE

Min(a, b) == IF a <= b THEN a ELSE b

----------------------------------------------------------------------------
(* Texts *)

Str(s) == <<s>>

Undefined == Str("#undefined")
ObjectValue == Str("#object")

ErrorReply == Str("I'm sorry, I encountered an error while processing your message.")
ResetReply == Str("I've reset our conversation history.")
FallbackText ==
  Str("I'm sorry, I'm having trouble processing your request right now. Please try again later.")
UnknownCommandPrefix == Str("Unknown command: ")
ProviderText == Str("Bot response")

Hello == <<"h", "i">>
Bye == <<"y", "o">>
SlashReset == <<"/", "r", "e", "s", "e", "t">>
SlashResetLoud == <<"/", " ", "R", "E", "S", "E", "T", " ">>
SlashDebug == <<"/", "d", "e", "b", "u", "g">>
SlashOther == <<"/", "F", "o", "o", " ">>

PlainTexts == {Hello, Bye}
CommandTexts == {SlashReset, SlashResetLoud, SlashDebug, SlashOther}
\* the texts of routed messages
Texts == {Hello} \cup CommandTexts

Chats == {"c1", "c2"}
Users == {"123456", "654321"}

\* String.prototype.startsWith
startsWith(text, prefix) ==
  /\ Len(prefix) <= Len(text)
  /\ SubSeq(text, 1, Len(prefix)) = prefix

\* String.prototype.substring(start)
substring(text, start) == SubSeq(text, start + 1, Len(text))

RECURSIVE trimStart(_)
trimStart(text) ==
  IF text # <<>> /\ Head(text) = " " THEN trimStart(Tail(text)) ELSE text

RECURSIVE trimEnd(_)
trimEnd(text) ==
  IF text # <<>> /\ text[Len(text)] = " "
  THEN trimEnd(SubSeq(text, 1, Len(text) - 1))
  ELSE text

\* String.prototype.trim
trim(text) == trimEnd(trimStart(text))

lowerOf(ch) ==
  CASE ch = "R" -> "r" [] ch = "E" -> "e" [] ch = "S" -> "s" [] ch = "T" -> "t"
    [] ch = "F" -> "f" [] ch = "D" -> "d" [] ch = "B" -> "b" [] ch = "U" -> "u"
    [] ch = "G" -> "g" [] ch = "O" -> "o"
    [] OTHER -> ch

\* a comparison that keeps the case of the command
keepCase(text) == text

\* String.prototype.toLowerCase
toLowerCase(text) == [i \in 1..Len(text) |-> lowerOf(text[i])]

----------------------------------------------------------------------------
(* Conversation store *)

maxHistoryLength == HistoryScale

\* slice(0, n) in place of slice(-n): the oldest entries are kept
sliceFirst(h, n) == IF Len(h) <= n THEN h ELSE SubSeq(h, 1, n)

\* Array.prototype.slice(-n)
sliceLast(h, n) == IF Len(h) <= n THEN h ELSE SubSeq(h, Len(h) - n + 1, Len(h))

\* the limit applied to the array before the push: one entry too many stays
pushThenNoCheck(h, message) ==
  Append(IF Len(h) > maxHistoryLength * 2 THEN sliceLast(h, maxHistoryLength * 2) ELSE h,
         message)

\* The array addToChatHistory leaves under the chat's key: push, then keep the
\* last 2 * maxHistoryLength entries.
pushLimited(h, message) ==
  LET pushed == Append(h, message)
  IN IF Len(pushed) > maxHistoryLength * 2
     THEN sliceLast(pushed, maxHistoryLength * 2)
     ELSE pushed

getChatHistory(chatId) ==
  IF chatId \in DOMAIN chatHistory THEN chatHistory[chatId] ELSE <<>>

\* a map with key k (created if missing) set to v
Put(map, k, v) == [x \in (DOMAIN map) \cup {k} |-> IF x = k THEN v ELSE map[x]]

\* one array shared by the chats: the message is pushed to every stored history
addToSharedHistory(chatId, message) ==
  [x \in (DOMAIN chatHistory) \cup {chatId} |-> pushLimited(getChatHistory(x), message)]

addToChatHistory(chatId, message) ==
  Put(chatHistory, chatId, pushLimited(getChatHistory(chatId), message))

rolesOf(chatId) == IF chatId \in DOMAIN roles THEN roles[chatId] ELSE <<>>
logOf(chatId) == IF chatId \in DOMAIN log THEN log[chatId] ELSE <<>>

\* the history variables follow an append by `who`
RecordAppend(chatId, message, who) ==
  /\ roles' = Put(roles, chatId, pushLimited(rolesOf(chatId), who))
  /\ log' = Put(log, chatId, Append(logOf(chatId), message))

\* the history variables follow the clearing of a chat
RecordClear(chatId) ==
  /\ roles' = Put(roles, chatId, <<>>)
  /\ log' = Put(log, chatId, <<>>)

----------------------------------------------------------------------------
(* LlmService *)

BotName == "TestBot"

Providers == {"grok", "openai", "anthropic", "custom", "test-provider"}

\* llm.service.ts:135-136; a temperature is counted in tenths (7 is 0.7)
DefaultMaxTokens == 1000
DefaultTemperature == 7

\* llm.service.ts:124, 168, 212
GrokUrl == "https://api.grok.x/v1/chat/completions"
OpenAiUrl == "https://api.openai.com/v1/chat/completions"
AnthropicUrl == "https://api.anthropic.com/v1/messages"

\* x || d for an optional number: absent and 0 are falsy
OrNumber(x, d) == IF IsPresent(x) /\ Val(x) # 0 THEN Val(x) ELSE d

\* x || d for an optional string: absent and '' are falsy
OrText(x, d) == IF IsPresent(x) /\ Val(x) # "" THEN Val(x) ELSE d

\* llm.service.ts:99-108: the prompt built from the personality
generateSystemPrompt == <<"You are ", BotName>>

\* llm.service.ts:45-46
systemPromptOf ==
  IF IsPresent(llmConfig.systemPrompt) /\ Val(llmConfig.systemPrompt) # <<>>
  THEN Val(llmConfig.systemPrompt)
  ELSE generateSystemPrompt

\* A response body is the set of property paths that are defined in it, the
\* path that holds the text and its usage object (absent, or the token
\* counts it has); NullBody is a body that is JSON null.
Body(paths, leaf) == [null |-> FALSE, paths |-> paths, leaf |-> leaf, usage |-> Absent]
NullBody == [null |-> TRUE, paths |-> {}, leaf |-> "", usage |-> Absent]
EmptyObject == Body({}, "")
ChatCompletion ==
  Body({"choices", "choices[0]", "choices[0].message", "choices[0].message.content"},
       "choices[0].message.content")
ChatCompletionNoContent ==
  Body({"choices", "choices[0]", "choices[0].message"}, "")
AnthropicMessage ==
  Body({"content", "content[0]", "content[0].text"}, "content[0].text")
AnthropicNoText == Body({"content", "content[0]"}, "")
CustomText == Body({"text"}, "text")
CustomResponse == Body({"response"}, "response")
CustomContent == Body({"content"}, "content")

\* the usage objects of a response: token counts, each of them optional
Usages ==
  {[input_tokens |-> Some(10), output_tokens |-> Some(20)],
   [input_tokens |-> Some(10), output_tokens |-> Absent],
   [input_tokens |-> Absent, output_tokens |-> Some(20)],
   [input_tokens |-> Absent, output_tokens |-> Absent]}

WithUsage(body, usage) == [body EXCEPT !.usage = Some(usage)]

Bodies ==
  {NullBody, EmptyObject, ChatCompletion, ChatCompletionNoContent,
   AnthropicMessage, AnthropicNoText, CustomText, CustomResponse, CustomContent}
    \cup {WithUsage(AnthropicMessage, u) : u \in Usages}

\* What axios.post does: it rejects, or it resolves with a body.
HttpOutcomes ==
  {[rejects |-> TRUE, data |-> NullBody]} \cup
  {[rejects |-> FALSE, data |-> b] : b \in Bodies}

\* the errors raised inside generateResponse: those the code constructs, a
\* rejection of axios.post, and the TypeError of reading a property of undefined
NoEndpointError == "Custom API endpoint is required but not provided"
UnsupportedError == "Unsupported LLM provider"
RequestError == "Request failed"
TypeError == "TypeError"

\* The result of an adapter: it threw an error, or it returned {text, usage};
\* requests are the axios.post calls it made, posts their number.
Thrown(error, requests) ==
  [threw |-> TRUE, error |-> error, text |-> Undefined, usage |-> Absent,
   requests |-> requests, posts |-> Len(requests)]
Returned(text, usage, requests) ==
  [threw |-> FALSE, error |-> "", text |-> text, usage |-> usage,
   requests |-> requests, posts |-> Len(requests)]

\* data.<path>: a property of a defined object
Prop(data, path) ==
  IF path \notin data.paths THEN Undefined
  ELSE IF path = data.leaf THEN ProviderText
  ELSE ObjectValue

\* a || b on values of the model
OrElse(a, b) == IF a # Undefined THEN a ELSE b

\* roles assigned the other way round: 'assistant' at the even indices
formatChatHistorySwapped(history) ==
  [i \in 1..Len(history) |->
     [role |-> IF (i - 1) % 2 = 0 THEN "assistant" ELSE "user", content |-> history[i]]]

\* llm.service.ts:302-314; index i of the code is i - 1 here
formatChatHistory(history) ==
  [i \in 1..Len(history) |->
     [role |-> IF (i - 1) % 2 = 0 THEN "user" ELSE "assistant", content |-> history[i]]]

\* llm.service.ts:130-134, 174-178, 215-219: the messages array of a request
chatMessages(systemPrompt, userMessage, history) ==
  <<[role |-> "system", content |-> systemPrompt]>>
    \o formatChatHistory(history)
    \o <<[role |-> "user", content |-> userMessage]>>

\* the body and the headers of a chat completion request
chatRequest(url, model, auth, systemPrompt, userMessage, history) ==
  [url |-> OrText(llmConfig.endpoint, url),
   model |-> OrText(llmConfig.model, model),
   messages |-> chatMessages(systemPrompt, userMessage, history),
   max_tokens |-> OrNumber(llmConfig.maxTokens, DefaultMaxTokens),
   temperature |-> OrNumber(llmConfig.temperature, DefaultTemperature),
   auth |-> auth]

\* llm.service.ts:268-284: the request of the custom adapter
customRequest(systemPrompt, userMessage, history) ==
  [url |-> IF IsPresent(llmConfig.endpoint) THEN Val(llmConfig.endpoint) ELSE "undefined",
   model |-> llmConfig.model,
   system_prompt |-> systemPrompt,
   user_message |-> userMessage,
   chat_history |-> history,
   max_tokens |-> OrNumber(llmConfig.maxTokens, DefaultMaxTokens),
   temperature |-> OrNumber(llmConfig.temperature, DefaultTemperature),
   auth |-> "Authorization"]

\* data.choices[0].message.content: a TypeError unless every object on the
\* way to the last property is defined
readChoicesContent(data, requests) ==
  IF data.null \/ "choices" \notin data.paths \/ "choices[0]" \notin data.paths
       \/ "choices[0].message" \notin data.paths
  THEN Thrown(TypeError, requests)
  ELSE Returned(Prop(data, "choices[0].message.content"), data.usage, requests)

callGrokApi(systemPrompt, userMessage, history, http) ==
  LET requests ==
        <<chatRequest(GrokUrl, "grok-3", "Authorization", systemPrompt, userMessage,
                      history)>>
  IN IF http.rejects THEN Thrown(RequestError, requests)
     ELSE readChoicesContent(http.data, requests)

callOpenAiApi(systemPrompt, userMessage, history, http) ==
  LET requests ==
        <<chatRequest(OpenAiUrl, "gpt-4", "Authorization", systemPrompt, userMessage,
                      history)>>
  IN IF http.rejects THEN Thrown(RequestError, requests)
     ELSE readChoicesContent(http.data, requests)

\* data.usage?.<count>
usageCount(data, count) == IF IsPresent(data.usage) THEN Val(data.usage)[count] ELSE Absent

\* a total that counts the input tokens only
anthropicUsageInputOnly(data) ==
  [promptTokens |-> usageCount(data, "input_tokens"),
   completionTokens |-> usageCount(data, "output_tokens"),
   totalTokens |-> OrNumber(usageCount(data, "input_tokens"), 0)]

\* llm.service.ts:242-247
anthropicUsage(data) ==
  [promptTokens |-> usageCount(data, "input_tokens"),
   completionTokens |-> usageCount(data, "output_tokens"),
   totalTokens |-> OrNumber(usageCount(data, "input_tokens"), 0)
                     + OrNumber(usageCount(data, "output_tokens"), 0)]

callAnthropicApi(systemPrompt, userMessage, history, http) ==
  LET requests ==
        <<chatRequest(AnthropicUrl, "claude-3-opus-20240229", "x-api-key", systemPrompt,
                      userMessage, history)>>
  IN IF http.rejects THEN Thrown(RequestError, requests)
     ELSE IF http.data.null \/ "content" \notin http.data.paths
               \/ "content[0]" \notin http.data.paths
     THEN Thrown(TypeError, requests)
     ELSE Returned(Prop(http.data, "content[0].text"), Some(anthropicUsage(http.data)),
                   requests)

\* the custom adapter without the test of lines 264-266: it posts to an
\* undefined address and the request fails
callCustomApiUnchecked(systemPrompt, userMessage, history, http) ==
  LET requests == <<customRequest(systemPrompt, userMessage, history)>>
  IN IF http.rejects \/ ~IsPresent(llmConfig.endpoint) THEN Thrown(RequestError, requests)
     ELSE IF http.data.null THEN Thrown(TypeError, requests)
     ELSE Returned(OrElse(Prop(http.data, "text"),
                          OrElse(Prop(http.data, "response"), Prop(http.data, "content"))),
                   http.data.usage, requests)

callCustomApi(systemPrompt, userMessage, history, http) ==
  LET requests == <<customRequest(systemPrompt, userMessage, history)>>
  IN IF ~IsPresent(llmConfig.endpoint) \/ llmConfig.endpoint = Some("")
     THEN Thrown(NoEndpointError, <<>>)
     ELSE IF http.rejects THEN Thrown(RequestError, requests)
     ELSE IF http.data.null THEN Thrown(TypeError, requests)
     ELSE Returned(OrElse(Prop(http.data, "text"),
                          OrElse(Prop(http.data, "response"), Prop(http.data, "content"))),
                   http.data.usage, requests)

\* the adapter that was called and what it answered
Via(adapter, response) == [adapters |-> <<adapter>>, response |-> response]

\* a switch whose first case lacks its break: the OpenAI adapter is called as well
dispatchFallsThrough(userMessage, history, http) ==
  CASE llmConfig.provider = "grok" ->
         [adapters |-> <<"callGrokApi", "callOpenAiApi">>,
          response |->
            LET first == callGrokApi(systemPromptOf, userMessage, history, http)
                second == callOpenAiApi(systemPromptOf, userMessage, history, http)
            IN IF first.threw THEN first
               ELSE [second EXCEPT !.requests = first.requests \o @,
                                   !.posts = first.posts + @]]
    [] llmConfig.provider = "openai" ->
         Via("callOpenAiApi", callOpenAiApi(systemPromptOf, userMessage, history, http))
    [] llmConfig.provider = "anthropic" ->
         Via("callAnthropicApi",
             callAnthropicApi(systemPromptOf, userMessage, history, http))
    [] llmConfig.provider = "custom" ->
         Via("callCustomApi", callCustomApi(systemPromptOf, userMessage, history, http))
    [] OTHER -> [adapters |-> <<>>, response |-> Thrown(UnsupportedError, <<>>)]

\* llm.service.ts:51-82: the switch of generateResponse
dispatch(userMessage, history, http) ==
  CASE llmConfig.provider = "grok" ->
         Via("callGrokApi", callGrokApi(systemPromptOf, userMessage, history, http))
    [] llmConfig.provider = "openai" ->
         Via("callOpenAiApi", callOpenAiApi(systemPromptOf, userMessage, history, http))
    [] llmConfig.provider = "anthropic" ->
         Via("callAnthropicApi",
             callAnthropicApi(systemPromptOf, userMessage, history, http))
    [] llmConfig.provider = "custom" ->
         Via("callCustomApi", callCustomApi(systemPromptOf, userMessage, history, http))
    [] OTHER -> [adapters |-> <<>>, response |-> Thrown(UnsupportedError, <<>>)]

\* How a call of the generator settles, as its caller sees it.
Settled(rejected, value, failed, posts, real) ==
  [rejected |-> rejected, value |-> value, failed |-> failed, posts |-> posts,
   real |-> real]

\* How a call of LlmService.generateResponse settles, with what it did on the way:
\* the adapters it called, their requests, the usage the adapter returned and
\* the error it raised.
Answered(rejected, value, called) ==
  [rejected |-> rejected, value |-> value, failed |-> called.response.threw,
   posts |-> called.response.posts, real |-> TRUE,
   adapters |-> called.adapters, requests |-> called.response.requests,
   usage |-> called.response.usage, error |-> called.response.error]

\* what BotService sees and keeps of a call of the generator
seen(result) ==
  Settled(result.rejected, result.value, result.failed, result.posts, result.real)

\* generateResponse without its catch: a failure of the adapter rejects the call
generateResponseNoCatch(userMessage, history, http) ==
  LET called == dispatch(userMessage, history, http)
  IN Answered(called.response.threw, called.response.text, called)

\* LlmService.generateResponse: the try block around dispatch and its catch
generateResponse(userMessage, history, http) ==
  LET called == dispatch(userMessage, history, http)
  IN IF called.response.threw
     THEN Answered(FALSE, FallbackText, called)
     ELSE Answered(FALSE, called.response.text, called)

\* The generator injected into BotService is LlmService, or a replacement
\* that rejects (bot.service.spec.ts, mockRejectedValueOnce).
GeneratorRejects == Settled(TRUE, Undefined, TRUE, 0, FALSE)

----------------------------------------------------------------------------
(* BotService: access control and commands *)

\* Array.prototype.includes
includes(arr, x) == \E i \in 1..Len(arr) : arr[i] = x

\* the allow-list check without its length test: an empty list denies everyone
notAllowedWhenEmpty(userId) ==
  /\ IsPresent(settings.allowedUsers)
  /\ ~includes(Val(settings.allowedUsers), userId)

\* bot.service.ts:83-86: the allow-list is configured, non-empty and lacks the sender
notAllowed(userId) ==
  /\ IsPresent(settings.allowedUsers)
  /\ Len(Val(settings.allowedUsers)) > 0
  /\ ~includes(Val(settings.allowedUsers), userId)

\* the block-list consulted only for senders the allow-list does not name
blacklistedUnlessAllowed(userId) ==
  /\ IsPresent(settings.blacklistedUsers)
  /\ includes(Val(settings.blacklistedUsers), userId)
  /\ ~(IsPresent(settings.allowedUsers) /\ includes(Val(settings.allowedUsers), userId))

\* bot.service.ts:92
blacklisted(userId) ==
  /\ IsPresent(settings.blacklistedUsers)
  /\ includes(Val(settings.blacklistedUsers), userId)

\* bot.service.ts:98-101: a non-empty prefix is configured and the text starts with it
hasCommandPrefix(messageText) ==
  /\ IsPresent(settings.commandPrefix)
  /\ Val(settings.commandPrefix) # <<>>
  /\ startsWith(messageText, Val(settings.commandPrefix))

\* bot.service.ts:140
commandOf(text) == trim(substring(text, Len(Val(settings.commandPrefix))))

\* a reply that quotes the command as it was compared, in lower case
unknownReplyLowered(command) == UnknownCommandPrefix \o toLowerCase(command)

\* bot.service.ts:166: the reply to an unknown command quotes it as it was typed
unknownReply(command) == UnknownCommandPrefix \o command

\* a dump that reports the number of texts appended, not the number kept
debugReplyOfAppended(chatId, userId) ==
  <<"Debug information:", chatId, userId,
    ToString(Len(logOf(chatId))), BotName, llmConfig.provider>>

\* bot.service.ts:152-161: the reply of the debug command
debugReply(chatId, userId) ==
  <<"Debug information:", chatId, userId,
    ToString(Len(getChatHistory(chatId))), BotName, llmConfig.provider>>

----------------------------------------------------------------------------
(* BotService.handleMessage, one invocation per slot *)

\* handleMessage invocations that may be suspended at an await at the same time
Slots == {1, 2}
\* The record of one invocation.  pc is the await it is suspended at; the
\* other fields are what it observed and did (events: its effects in the
\* order they happened): the store when it started
\* (kept while no other invocation overlaps it: solo), the history
\* handed to the generator while that call is pending, how the generator
\* settled, the text of the pending or last ctx.reply, the sendChatAction
\* calls, the ctx.reply calls, the replies delivered and the texts it
\* appended to the store.
IdleHandler ==
  [pc |-> "idle", chat |-> "", user |-> "", text |-> Absent,
   solo |-> FALSE, before |-> <<>>,
   handed |-> Absent, gen |-> Absent, response |-> <<>>,
   typing |-> 0, replyCalls |-> <<>>, delivered |-> <<>>, appended |-> <<>>,
   events |-> <<>>, outcome |-> "running"]

InFlight == {slot \in Slots : handlers[slot].pc # "idle"}

\* the record of an invocation that starts on message ctx
Started(ctx) ==
  [IdleHandler EXCEPT !.chat = ctx.chat, !.user = ctx.user, !.text = ctx.text,
                      !.solo = (InFlight = {}),
                      !.before = IF InFlight = {} THEN chatHistory ELSE <<>>]

\* the invocations already in flight are overlapped by the one that starts in `slot`
Overlapped(slot, h) ==
  [other \in Slots |->
     IF other = slot THEN h
     ELSE IF handlers[other].pc = "idle" THEN handlers[other]
     ELSE [handlers[other] EXCEPT !.solo = FALSE, !.before = <<>>]]

\* inbound updates: a text message, or a message without text
Contexts(chats, users) ==
  [chat : chats, user : users, text : {Some(t) : t \in Texts} \cup {Absent}]

\* a router that starts an invocation only when no other is in flight
FreeSlotWhenAllIdle(slot) ==
  /\ slot = 1
  /\ \A other \in Slots : handlers[other].pc = "idle"

\* bot.service.ts:73 and telegram.service.ts:87-95: nothing holds back an
\* update while the handler of an earlier one is suspended; the invocation
\* takes the lowest slot that is idle
FreeSlot(slot) ==
  /\ handlers[slot].pc = "idle"
  /\ \A other \in Slots : other < slot => handlers[other].pc # "idle"

RECURSIVE SumLen(_, _)
SumLen(map, keys) ==
  IF keys = {} THEN 0
  ELSE LET k == CHOOSE x \in keys : TRUE
       IN Len(map[k]) + SumLen(map, keys \ {k})

\* entries appended since the chats were last cleared, and the replies that
\* the invocations in flight may still append
Appended == SumLen(log, DOMAIN log)
ToAppend ==
  Cardinality({slot \in Slots : handlers[slot].pc \in {"typing", "generate", "delay", "reply"}})

Ended(h, outcome) == Some([h EXCEPT !.outcome = outcome, !.pc = "ended"])

\* the invocation of `slot` ends: it returned, or its promise rejected
Finish(slot, h, outcome) ==
  /\ handlers' = [handlers EXCEPT ![slot] = IdleHandler]
  /\ last' = Ended(h, outcome)

\* the invocation of `slot` goes on as h
Continue(slot, h) ==
  /\ handlers' = [handlers EXCEPT ![slot] = h]
  /\ last' = Absent

\* ctx.reply(text) is called and the invocation waits for it at `pc`
CallReply(h, text, pc) ==
  [h EXCEPT !.pc = pc, !.response = text, !.replyCalls = Append(@, text),
            !.events = Append(@, pc)]

\* an invocation that returns before its first await
ReturnAtOnce(slot, ctx) ==
  /\ handlers' = Overlapped(slot, IdleHandler)
  /\ last' = Ended(Started(ctx), "returned")
  /\ UNCHANGED <<chatHistory, roles, log>>

\* bot.service.ts:74-76: not a text message
IgnoreNonText(slot, ctx) ==
  /\ ~IsPresent(ctx.text)
  /\ ReturnAtOnce(slot, ctx)

\* bot.service.ts:83-89
DenyNotAllowed(slot, ctx) ==
  /\ IsPresent(ctx.text)
  /\ notAllowed(ctx.user)
  /\ ReturnAtOnce(slot, ctx)

\* bot.service.ts:92-95
DenyBlacklisted(slot, ctx) ==
  /\ IsPresent(ctx.text)
  /\ ~notAllowed(ctx.user)
  /\ blacklisted(ctx.user)
  /\ ReturnAtOnce(slot, ctx)

\* a router that intercepts commands before it consults the access lists
AdmittedOrCommand(ctx) ==
  /\ IsPresent(ctx.text)
  /\ \/ hasCommandPrefix(Val(ctx.text))
     \/ ~notAllowed(ctx.user) /\ ~blacklisted(ctx.user)

\* bot.service.ts:74-95: the message has a text and its sender passed both lists
Admitted(ctx) ==
  /\ IsPresent(ctx.text)
  /\ ~notAllowed(ctx.user)
  /\ ~blacklisted(ctx.user)

\* a reset that is put off while the chat has a generation in flight
ResetUnlessInFlight(chatId) ==
  IF \E slot \in Slots : handlers[slot].pc # "idle" /\ handlers[slot].chat = chatId
  THEN UNCHANGED <<chatHistory, roles, log>>
  ELSE /\ chatHistory' = Put(chatHistory, chatId, <<>>)
       /\ RecordClear(chatId)

\* bot.service.ts:143-148: the reset command clears the chat's history
ResetHistory(chatId) ==
  /\ chatHistory' = Put(chatHistory, chatId, <<>>)
  /\ RecordClear(chatId)

\* bot.service.ts:98-104 and 139-168, up to the await of ctx.reply
handleCustomCommand(slot, ctx) ==
  /\ Admitted(ctx)
  /\ hasCommandPrefix(Val(ctx.text))
  /\ LET command == commandOf(Val(ctx.text))
         h == Started(ctx)
     IN CASE toLowerCase(command) = <<"r", "e", "s", "e", "t">> ->
               /\ ResetHistory(ctx.chat)
               /\ handlers' = Overlapped(slot, CallReply(h, ResetReply, "command"))
          [] toLowerCase(command) = <<"d", "e", "b", "u", "g">> ->
               /\ handlers' =
                    Overlapped(slot, CallReply(h, debugReply(ctx.chat, ctx.user), "command"))
               /\ UNCHANGED <<chatHistory, roles, log>>
          [] OTHER ->
               /\ handlers' =
                    Overlapped(slot, CallReply(h, unknownReply(command), "command"))
               /\ UNCHANGED <<chatHistory, roles, log>>
  /\ last' = Absent

\* bot.service.ts:106-110: the user's text is stored and sendChatAction is called
StoreAndType(slot, ctx) ==
  /\ Admitted(ctx)
  /\ ~hasCommandPrefix(Val(ctx.text))
  /\ Appended + ToAppend + 2 <= MaxAppended
  /\ chatHistory' = addToChatHistory(ctx.chat, Val(ctx.text))
  /\ RecordAppend(ctx.chat, Val(ctx.text), "user")
  /\ handlers' = Overlapped(slot, [Started(ctx) EXCEPT !.pc = "typing", !.typing = 1,
                                                       !.appended = <<Val(ctx.text)>>,
                                                       !.events = <<"user stored", "typing">>])
  /\ last' = Absent

\* handleMessage from its entry to its first await (or its return)
HandleMessage(slot, ctx) ==
  /\ FreeSlot(slot)
  /\ \/ IgnoreNonText(slot, ctx)
     \/ DenyNotAllowed(slot, ctx)
     \/ DenyBlacklisted(slot, ctx)
     \/ handleCustomCommand(slot, ctx)
     \/ StoreAndType(slot, ctx)
  /\ UNCHANGED <<settings, llmConfig, generated>>

\* bot.service.ts:173-182: the history BotService.generateResponse hands to the generator
historyForGenerator(chatId) == getChatHistory(chatId)

\* bot.service.ts:110-114: sendChatAction settles; line 110 is outside the try
TypingSettles(slot, ok) ==
  LET h == handlers[slot]
  IN /\ h.pc = "typing"
     /\ IF ok
        THEN Continue(slot, [h EXCEPT !.pc = "generate",
                                      !.handed = Some(historyForGenerator(h.chat)),
                                      !.events = Append(@, "generate")])
        ELSE Finish(slot, h, "threw")
     /\ UNCHANGED <<settings, llmConfig, chatHistory, roles, log, generated>>

\* a catch block that replies with the message of the error it caught
CatchSendsErrorMessage(h) == CallReply(h, Str("LLM error"), "apology")

\* bot.service.ts:128-132: the catch block calls ctx.reply with the apology
Catch(h) == CallReply(h, ErrorReply, "apology")

\* as if the test of line 117 were responseDelay >= 0: a delay of 0 waits too
hasResponseDelayOrZero ==
  IsPresent(settings.responseDelay) /\ Val(settings.responseDelay) >= 0

\* bot.service.ts:117
hasResponseDelay ==
  IsPresent(settings.responseDelay) /\ Val(settings.responseDelay) > 0

\* bot.service.ts:114-124: the generator settles with `result`
GenerateSettles(slot, result) ==
  LET h == [handlers[slot] EXCEPT !.gen = Some(result), !.handed = Absent]
  IN /\ handlers[slot].pc = "generate"
     /\ Continue(slot,
          IF result.rejected THEN Catch(h)
          ELSE IF hasResponseDelay
          THEN [h EXCEPT !.pc = "delay", !.response = result.value,
                         !.events = Append(@, "delay")]
          ELSE CallReply(h, result.value, "reply"))
     /\ UNCHANGED <<settings, llmConfig, chatHistory, roles, log, generated>>

\* bot.service.ts:117-124: the timer of the response delay fires
DelayElapses(slot) ==
  LET h == handlers[slot]
  IN /\ h.pc = "delay"
     /\ Continue(slot, CallReply(h, h.response, "reply"))
     /\ UNCHANGED <<settings, llmConfig, chatHistory, roles, log, generated>>

\* as if storing the delivered reply failed inside the try block: the catch
\* block runs although the reply was delivered
ReplySettlesThenCatch(slot, ok) ==
  LET h == handlers[slot]
  IN /\ h.pc = "reply"
     /\ Continue(slot, Catch(IF ok THEN [h EXCEPT !.delivered = Append(@, h.response)] ELSE h))
     /\ UNCHANGED <<settings, llmConfig, chatHistory, roles, log, generated>>

\* bot.service.ts:124-133: ctx.reply(response) settles
ReplySettles(slot, ok) ==
  LET h == handlers[slot]
  IN /\ h.pc = "reply"
     /\ IF ok
        THEN /\ chatHistory' = addToChatHistory(h.chat, h.response)
             /\ RecordAppend(h.chat, h.response, "assistant")
             /\ Finish(slot, [h EXCEPT !.delivered = Append(@, h.response),
                                       !.appended = Append(@, h.response),
                                       !.events = Append(@, "reply stored")], "returned")
        ELSE /\ Continue(slot, Catch(h))
             /\ UNCHANGED <<chatHistory, roles, log>>
     /\ UNCHANGED <<settings, llmConfig, generated>>

\* bot.service.ts:130-133: the apology's ctx.reply settles; nothing catches its failure
ApologySettles(slot, ok) ==
  LET h == handlers[slot]
  IN /\ h.pc = "apology"
     /\ IF ok
        THEN Finish(slot, [h EXCEPT !.delivered = Append(@, h.response)], "returned")
        ELSE Finish(slot, h, "threw")
     /\ UNCHANGED <<settings, llmConfig, chatHistory, roles, log, generated>>

\* bot.service.ts:102 and 147/159/166: the command's ctx.reply settles
CommandReplySettles(slot, ok) ==
  LET h == handlers[slot]
  IN /\ h.pc = "command"
     /\ IF ok
        THEN Finish(slot, [h EXCEPT !.delivered = Append(@, h.response)], "returned")
        ELSE Finish(slot, h, "threw")
     /\ UNCHANGED <<settings, llmConfig, chatHistory, roles, log, generated>>

\* a direct call of addToChatHistory (bot.service.spec.ts:323-345)
DirectAppend(chatId, message) ==
  /\ Len(logOf(chatId)) < maxHistoryLength * 2 + ExtraAppends
  /\ chatHistory' = addToChatHistory(chatId, message)
  /\ RecordAppend(chatId, message, "direct")
  /\ UNCHANGED <<settings, llmConfig, handlers, last, generated>>

----------------------------------------------------------------------------
(* ConfigService *)

\* !x is false: a string that is present and not '', a number that is present
\* and not 0, a flag that is present and true
truthyText(x) == IsPresent(x) /\ Val(x) # ""
truthyNumber(x) == IsPresent(x) /\ Val(x) # 0
truthyFlag(x) == IsPresent(x) /\ Val(x)

\* The documents yaml.load may return: every section and every field the
\* validation reads is optional in them.
WebhookSections ==
  {Absent} \cup
  {Some([enabled |-> e, url |-> u, port |-> p]) :
     e \in {Absent, Some(TRUE), Some(FALSE)},
     u \in {Absent, Some("https://example.com/webhook")},
     p \in {Absent, Some(0), Some(8443)}}

PollingSections == {Absent} \cup {Some([enabled |-> e]) : e \in {Some(TRUE), Some(FALSE)}}

BotSections ==
  {Absent} \cup
  {Some([token |-> t, webhook |-> w, polling |-> p]) :
     t \in {Absent, Some(""), Some("test-token")}, w \in WebhookSections, p \in PollingSections}

Personalities == {Absent, Some([name |-> BotName])}

LlmSections ==
  {Absent} \cup
  {Some([provider |-> p, apiKey |-> k]) :
     p \in {Absent, Some("grok")}, k \in {Absent, Some("test-api-key")}}

Documents == [bot : BotSections, personality : Personalities, llm : LlmSections]

\* a file that cannot be read, an empty file (yaml.load returns undefined), or a document
ConfigFiles ==
  {[readable |-> FALSE, document |-> Absent], [readable |-> TRUE, document |-> Absent]}
    \cup {[readable |-> TRUE, document |-> Some(d)] : d \in Documents}

\* the state of a ConfigService
NotConstructed == [state |-> "none", error |-> "", config |-> Absent]
Failed(error) == [state |-> "failed", error |-> error, config |-> Absent]
Loaded(config) == [state |-> "loaded", error |-> "", config |-> Some(config)]

\* config.bot.webhook?.enabled, config.bot.polling?.enabled (bot is present)
webhookOn(config) ==
  /\ IsPresent(Val(config.bot).webhook)
  /\ truthyFlag(Val(Val(config.bot).webhook).enabled)

pollingOn(config) ==
  /\ IsPresent(Val(config.bot).polling)
  /\ truthyFlag(Val(Val(config.bot).polling).enabled)

\* both modes are left as the document has them
keepBothModes(config) == config

\* config.service.ts:49-54: with both modes enabled polling is switched off
usingWebhookMode(config) ==
  IF webhookOn(config) /\ pollingOn(config)
  THEN [config EXCEPT !.bot =
          Some([Val(@) EXCEPT !.polling = Some([Val(@) EXCEPT !.enabled = Some(FALSE)])])]
  ELSE config

\* the validation without the test of the personality section
validateConfigNoPersonality(config) ==
  IF ~(IsPresent(config.bot) /\ truthyText(Val(config.bot).token))
  THEN Failed("Bot token is required in configuration")
  ELSE IF ~(IsPresent(config.llm) /\ truthyText(Val(config.llm).provider))
            \/ ~(IsPresent(config.llm) /\ truthyText(Val(config.llm).apiKey))
  THEN Failed("LLM provider and API key are required in configuration")
  ELSE LET using == usingWebhookMode(config)
           webhook == Val(Val(using.bot).webhook)
       IN IF webhookOn(using) /\ (~truthyText(webhook.url) \/ ~truthyNumber(webhook.port))
          THEN Failed("Webhook URL and port are required when webhook is enabled")
          ELSE Loaded(using)

\* config.service.ts:34-66
validateConfig(config) ==
  IF ~(IsPresent(config.bot) /\ truthyText(Val(config.bot).token))
  THEN Failed("Bot token is required in configuration")
  ELSE IF ~IsPresent(config.personality)
  THEN Failed("Personality configuration is required")
  ELSE IF ~(IsPresent(config.llm) /\ truthyText(Val(config.llm).provider))
            \/ ~(IsPresent(config.llm) /\ truthyText(Val(config.llm).apiKey))
  THEN Failed("LLM provider and API key are required in configuration")
  ELSE LET using == usingWebhookMode(config)
           webhook == Val(Val(using.bot).webhook)
       IN IF webhookOn(using) /\ (~truthyText(webhook.url) \/ ~truthyNumber(webhook.port))
          THEN Failed("Webhook URL and port are required when webhook is enabled")
          ELSE Loaded(using)

\* config.service.ts:18-29: a failure to read the file and the TypeError of
\* validating an undefined document are rethrown as they are
loadConfig(file) ==
  IF ~file.readable THEN Failed("ENOENT")
  ELSE IF ~IsPresent(file.document) THEN Failed(TypeError)
  ELSE validateConfig(Val(file.document))

\* config.service.ts:78-80
getBotConfig == Val(Val(configService.config).bot)

\* config.service.ts:11-13: new ConfigService()
ConstructConfigService ==
  /\ configService = NotConstructed
  /\ configService' = loadConfig(configFile)
  /\ UNCHANGED <<configFile, controller, webhooks>>

----------------------------------------------------------------------------
(* TelegramController *)

\* how the constructor of the controller finds its configuration: through
\* the ConfigService, not at all (no service was injected), or through a
\* getBotConfig that throws
Lookups == {"service", "missing", "throws"}

Updates == {"u1", "u2"}

\* a controller that takes webhooks as enabled when it cannot look the setting up
webhookEnabledUnlessKnown(lookup) ==
  IF lookup = "service"
  THEN /\ IsPresent(getBotConfig.webhook)
       /\ truthyFlag(Val(getBotConfig.webhook).enabled)
  ELSE TRUE

\* telegram.controller.ts constructor: false by default, botConfig.webhook.enabled
\* || false when the lookup succeeds and the section exists
webhookEnabledOf(lookup) ==
  IF lookup = "service"
  THEN /\ IsPresent(getBotConfig.webhook)
       /\ truthyFlag(Val(getBotConfig.webhook).enabled)
  ELSE FALSE

\* new TelegramController(telegramService, configService), in an application
\* whose ConfigService was constructed
ConstructController(lookup) ==
  /\ configService.state = "loaded"
  /\ controller = Absent
  /\ controller' = Some([webhookEnabled |-> webhookEnabledOf(lookup), lookup |-> lookup])
  /\ UNCHANGED <<configFile, configService, webhooks>>

Response(status, body) == [status |-> status, body |-> body]

\* A webhook request: the update it carries, where handleWebhook is, the
\* calls of handleWebhookUpdate it made, whether the call completed (once it
\* settled), the responses it sent and how it ended.
Request(update, pc, dispatched, responses, outcome) ==
  [update |-> update, pc |-> pc, dispatched |-> dispatched, completed |-> Absent,
   responses |-> responses, outcome |-> outcome]

\* handleWebhook from its entry to the await of handleWebhookUpdate, or to
\* the 403 response
handleWebhook(update) ==
  IF ~Val(controller).webhookEnabled
  THEN Request(update, "done", <<>>, <<Response(403, "Webhook mode is disabled")>>,
               "returned")
  ELSE Request(update, "dispatching", <<update>>, <<>>, "running")

\* handleWebhook without its try block: a dispatch that raises rejects the request
afterDispatchNoCatch(request, ok) ==
  IF ok
  THEN [request EXCEPT !.pc = "done", !.outcome = "returned",
                       !.responses = Append(@, Response(200, "OK"))]
  ELSE [request EXCEPT !.pc = "done", !.outcome = "threw"]

\* handleWebhook after handleWebhookUpdate settled: 200, or the catch block's 500
afterDispatch(request, ok) ==
  [request EXCEPT !.pc = "done", !.outcome = "returned",
                  !.responses = Append(@, IF ok THEN Response(200, "OK")
                                          ELSE Response(500, "Internal Server Error"))]

\* POST /telegram/webhook arrives
HandleWebhook(update) ==
  /\ IsPresent(controller)
  /\ Len(webhooks) < MaxRequests
  /\ webhooks' = Append(webhooks, handleWebhook(update))
  /\ UNCHANGED <<configFile, configService, controller>>

\* telegramService.handleWebhookUpdate(update) settles for request i
DispatchSettles(i, ok) ==
  /\ i \in DOMAIN webhooks
  /\ webhooks[i].pc = "dispatching"
  /\ webhooks' = [webhooks EXCEPT ![i] = [afterDispatch(@, ok) EXCEPT !.completed = Some(ok)]]
  /\ UNCHANGED <<configFile, configService, controller>>

----------------------------------------------------------------------------
(* Configurations and specifications *)

\* bot.service.ts:29-35: the settings of the constructor
DefaultSettings ==
  [allowedUsers |-> Some(<<>>), blacklistedUsers |-> Some(<<>>),
   commandPrefix |-> Some(<<"/">>), responseDelay |-> Some(0)]

\* bot-config.yaml: the llm section
DefaultLlm ==
  [provider |-> "grok", endpoint |-> Absent, model |-> Some("grok-3"),
   maxTokens |-> Some(1000), temperature |-> Some(7), systemPrompt |-> Absent]

\* the steps of the invocation in `slot`, for messages of `chats` from
\* `users`, with a backend that settles a request as one of `https`
Steps(slot, chats, users, https) ==
  \/ \E ctx \in Contexts(chats, users) : HandleMessage(slot, ctx)
  \/ \E ok \in BOOLEAN : TypingSettles(slot, ok)
  \/ \E http \in https :
       /\ handlers[slot].pc = "generate"
       /\ GenerateSettles(slot, seen(generateResponse(Val(handlers[slot].text),
                                                      Val(handlers[slot].handed), http)))
  \/ GenerateSettles(slot, GeneratorRejects)
  \/ DelayElapses(slot)
  \/ \E ok \in BOOLEAN : ReplySettles(slot, ok)
  \/ \E ok \in BOOLEAN : ApologySettles(slot, ok)
  \/ \E ok \in BOOLEAN : CommandReplySettles(slot, ok)

Answers == {[rejects |-> FALSE, data |-> ChatCompletion]}

\* bot-config.yaml: polling mode, the webhook section filled in but disabled
\* (the token, url, port, name and key are those of config.service.spec.ts:20-52)
DefaultFile ==
  [readable |-> TRUE,
   document |->
     Some([bot |-> Some([token |-> Some("test-token"),
                         webhook |-> Some([enabled |-> Some(FALSE),
                                           url |-> Some("https://example.com/webhook"),
                                           port |-> Some(8443)]),
                         polling |-> Some([enabled |-> Some(TRUE)])]),
           personality |-> Some([name |-> BotName]),
           llm |-> Some([provider |-> Some("grok"), apiKey |-> Some("test-api-key")])])]

\* The services as the application constructs them from the default file, with
\* an empty store and nothing in flight.
Fresh ==
  /\ chatHistory = <<>>
  /\ roles = <<>>
  /\ log = <<>>
  /\ handlers = [slot \in Slots |-> IdleHandler]
  /\ last = Absent
  /\ generated = Absent
  /\ configFile = DefaultFile
  /\ configService = loadConfig(DefaultFile)
  /\ controller = Absent
  /\ webhooks = <<>>

\* Routing of the messages of one chat, invocations overlapping; the access
\* lists are empty (every sender is admitted, so one sender stands for
\* all) and the backend answers with a well-formed completion.
Init ==
  /\ settings \in {DefaultSettings, [DefaultSettings EXCEPT !.responseDelay = Some(1)]}
  /\ llmConfig = DefaultLlm
  /\ Fresh

Next ==
  /\ \E slot \in Slots : Steps(slot, {"c1"}, {"123456"}, Answers)
  /\ UNCHANGED webVars

Spec == Init /\ [][Next]_vars

\* Routing of the messages of two chats under every combination of access
\* lists and with or without a response delay, one invocation at a time.
AllowLists == {Absent, Some(<<>>), Some(<<"123456">>)}
BlackLists == {Absent, Some(<<"654321">>), Some(<<"123456">>)}

AccessInit ==
  /\ settings \in {[DefaultSettings EXCEPT !.allowedUsers = a, !.blacklistedUsers = b,
                                            !.responseDelay = d] :
                     a \in AllowLists, b \in BlackLists, d \in {Some(0), Some(1)}}
  /\ llmConfig = DefaultLlm
  /\ Fresh

AccessNext ==
  /\ Steps(1, Chats, Users, Answers)
  /\ UNCHANGED webVars

SpecAccess == AccessInit /\ [][AccessNext]_vars

\* The store alone: direct appends to a service with the constructor's settings.
StoreInit ==
  /\ settings = DefaultSettings
  /\ llmConfig = DefaultLlm
  /\ Fresh

StoreNext ==
  /\ \E chatId \in Chats, message \in PlainTexts : DirectAppend(chatId, message)
  /\ UNCHANGED webVars

SpecStore == StoreInit /\ [][StoreNext]_vars

\* LlmService alone, under every provider configuration, every history of
\* at most MaxHistoryArg texts and every way the backend settles the request.
TokenLimits == {Absent, Some(0), Some(500)}
Temperatures == {Absent, Some(0), Some(5)}
SystemPrompts == {Absent, Some(Str("You are a parrot."))}

LlmConfigs ==
  {[provider |-> p, endpoint |-> e, model |-> Absent, maxTokens |-> m,
    temperature |-> t, systemPrompt |-> sp] :
     p \in Providers, e \in {Absent}, m \in TokenLimits, t \in Temperatures,
     sp \in SystemPrompts}
  \cup
  {[provider |-> "custom", endpoint |-> Some("https://llm.example/api"), model |-> Absent,
    maxTokens |-> m, temperature |-> t, systemPrompt |-> sp] :
     m \in TokenLimits, t \in Temperatures, sp \in SystemPrompts}

RECURSIVE SeqsUpTo(_, _)
SeqsUpTo(S, n) ==
  IF n = 0 THEN {<<>>}
  ELSE LET shorter == SeqsUpTo(S, n - 1)
       IN shorter \cup {Append(q, x) : q \in shorter, x \in S}

Histories == SeqsUpTo(PlainTexts, MaxHistoryArg)

LlmInit ==
  /\ settings = DefaultSettings
  /\ llmConfig \in LlmConfigs
  /\ Fresh

\* llm.service.ts:37-82: generateResponse is called and runs up to the await
\* of its adapter
Call(userMessage, history) ==
  /\ \A g \in generated : IsPresent(g.result)
  /\ generated' = Some([userMessage |-> userMessage, chatHistory |-> history,
                        http |-> Absent, result |-> Absent])
  /\ UNCHANGED <<settings, llmConfig, chatHistory, roles, log, handlers, last>>

\* llm.service.ts:84-93: the adapter settles and generateResponse resolves
Settle(http) ==
  /\ \E g \in generated :
       /\ ~IsPresent(g.result)
       /\ generated' =
            Some([g EXCEPT !.http = Some(http),
                           !.result = Some(generateResponse(g.userMessage, g.chatHistory,
                                                            http))])
  /\ UNCHANGED <<settings, llmConfig, chatHistory, roles, log, handlers, last>>

LlmNext ==
  /\ \/ \E userMessage \in PlainTexts, history \in Histories : Call(userMessage, history)
     \/ \E http \in HttpOutcomes : Settle(http)
  /\ UNCHANGED webVars

SpecLlm == LlmInit /\ [][LlmNext]_vars

\* ConfigService and TelegramController: the service is constructed from any
\* configuration file, then the controller, which receives webhook requests.
WebInit ==
  /\ settings = DefaultSettings
  /\ llmConfig = DefaultLlm
  /\ chatHistory = <<>>
  /\ roles = <<>>
  /\ log = <<>>
  /\ handlers = [slot \in Slots |-> IdleHandler]
  /\ last = Absent
  /\ generated = Absent
  /\ configFile \in ConfigFiles
  /\ configService = NotConstructed
  /\ controller = Absent
  /\ webhooks = <<>>

WebNext ==
  /\ \/ ConstructConfigService
     \/ \E lookup \in Lookups : ConstructController(lookup)
     \/ \E update \in Updates : HandleWebhook(update)
     \/ \E i \in 1..MaxRequests, ok \in BOOLEAN : DispatchSettles(i, ok)
  /\ UNCHANGED <<settings, llmConfig, chatHistory, roles, log, handlers, last, generated>>

SpecWeb == WebInit /\ [][WebNext]_vars

\* BotService with LlmService as its generator and a backend that settles
\* the request in every way: the messages of one chat, one invocation at a
\* time, with and without a response delay.
BackendInit ==
  /\ settings \in {DefaultSettings, [DefaultSettings EXCEPT !.responseDelay = Some(1)]}
  /\ llmConfig = DefaultLlm
  /\ Fresh

BackendNext ==
  /\ Steps(1, {"c1"}, {"123456"}, HttpOutcomes)
  /\ UNCHANGED webVars

SpecBackend == BackendInit /\ [][BackendNext]_vars

----------------------------------------------------------------------------
(* Properties *)

HistoryOf(store, chatId) == IF chatId \in DOMAIN store THEN store[chatId] ELSE <<>>
Listed(list, userId) == IsPresent(list) /\ \E i \in DOMAIN Val(list) : Val(list)[i] = userId
AllowListActive == IsPresent(settings.allowedUsers) /\ Val(settings.allowedUsers) # <<>>

\* C1: the stored history of a chat never holds more than
\* 2 * maxHistoryLength entries, whatever the interleaving of the routed messages.
C1_HistoryBounded ==
  \A chatId \in DOMAIN chatHistory : Len(chatHistory[chatId]) <= 2 * maxHistoryLength

\* more entries were appended than the store keeps, with two invocations in flight
C1_Witness ==
  /\ Len(logOf("c1")) > 2 * maxHistoryLength
  /\ Len(getChatHistory("c1")) = 2 * maxHistoryLength
  /\ Cardinality(InFlight) = 2

\* C2: after k appends to a chat, getChatHistory returns the last
\* min(k, 2 * maxHistoryLength) appended texts in their order (so the latest
\* append is its last element), and the empty sequence for an unseen chat.
C2_GetReturnsLastAppended ==
  \A chatId \in Chats :
    LET appended == logOf(chatId)
        k == Len(appended)
        n == Min(k, 2 * maxHistoryLength)
        got == getChatHistory(chatId)
    IN /\ Len(got) = n
       /\ \A i \in 1..n : got[i] = appended[k - n + i]

\* a chat that was appended to beyond the limit, with different texts, beside an unseen chat
C2_Witness ==
  /\ Len(logOf("c1")) = 2 * maxHistoryLength + ExtraAppends
  /\ \E i, j \in DOMAIN logOf("c1") : logOf("c1")[i] # logOf("c1")[j]
  /\ "c2" \notin DOMAIN chatHistory

\* C3: every chat's history alternates, a user's text at the even indices
\* (0-based) and an assistant's reply at the odd ones.
C3_HistoryAlternates ==
  \A chatId \in DOMAIN roles :
    \A i \in 1..Len(roles[chatId]) :
      roles[chatId][i] = IF i % 2 = 1 THEN "user" ELSE "assistant"

\* C4: the history handed to the generator is the chat's history as it was
\* before the current message was appended, and does not end with that message.
C4_HandedHistoryIsPrior ==
  \A slot \in Slots :
    LET h == handlers[slot]
    IN (h.pc = "generate" /\ h.solo) =>
         /\ Val(h.handed) = HistoryOf(h.before, h.chat)
         /\ Val(h.handed) = <<>> \/ Val(h.handed)[Len(Val(h.handed))] # Val(h.text)

\* C5: no invocation of handleMessage ends with its promise rejected.
C5_NoExceptionEscapes == \A h \in last : h.outcome = "returned"

\* C6: when the generator rejects, handleMessage calls ctx.reply once, with
\* the fixed apology, and the only text it appends is the user's: the store
\* afterwards is the store before with the user's text appended to the chat.
C6_RejectionApology ==
  \A h \in last :
    (IsPresent(h.gen) /\ Val(h.gen).rejected) =>
      /\ h.replyCalls = <<ErrorReply>>
      /\ h.appended = <<Val(h.text)>>
      /\ h.solo =>
           chatHistory =
             Put(h.before, h.chat, pushLimited(HistoryOf(h.before, h.chat), Val(h.text)))

\* the generator rejected for a message that arrived at a full history
C6_Witness ==
  \E h \in last :
    /\ IsPresent(h.gen) /\ Val(h.gen).rejected
    /\ h.solo
    /\ h.outcome = "returned"
    /\ Len(HistoryOf(h.before, h.chat)) = 2 * maxHistoryLength

\* the calls of LlmService.generateResponse that have settled
Calls ==
  {[userMessage |-> g.userMessage, chatHistory |-> g.chatHistory, http |-> Val(g.http),
    result |-> Val(g.result)] : g \in {x \in generated : IsPresent(x.result)}}

\* C7: LlmService.generateResponse never rejects, and it resolves to the
\* fallback text whenever the dispatch or the adapter fails.
C7_GenerateNeverRejects ==
  \A g \in Calls :
    /\ ~g.result.rejected
    /\ dispatch(g.userMessage, g.chatHistory, g.http).response.threw =>
         g.result.value = FallbackText

\* a call that failed: the provider is unsupported, the custom endpoint is
\* missing, or the request was rejected
C7_Witness ==
  \E g \in Calls :
    /\ dispatch(g.userMessage, g.chatHistory, g.http).response.threw
    /\ g.result.value = FallbackText
    /\ \/ llmConfig.provider = "test-provider"
       \/ llmConfig.provider = "custom" /\ ~IsPresent(llmConfig.endpoint)
       \/ g.http.rejects

ExpectedPaths(provider) ==
  CASE provider \in {"grok", "openai"} -> {"choices[0].message.content"}
    [] provider = "anthropic" -> {"content[0].text"}
    [] provider = "custom" -> {"text", "response", "content"}
    [] OTHER -> {}

\* C8: a successful answer without text at the provider's path yields the
\* fallback text, so the result is a text of the provider or the fallback text.
C8_MalformedYieldsFallback ==
  \A g \in Calls :
    /\ (~g.http.rejects /\ g.http.data.leaf \notin ExpectedPaths(llmConfig.provider)) =>
         g.result.value = FallbackText
    /\ g.result.value \in {ProviderText, FallbackText}

\* C9: a text message from a sender missing from a non-empty allow-list
\* causes no reply, no typing indicator, no generator call and no change of the
\* store; an absent or empty allow-list denies nobody.
C9_AllowList ==
  \A h \in last :
    IsPresent(h.text) =>
      /\ (AllowListActive /\ ~Listed(settings.allowedUsers, h.user)) =>
           /\ h.replyCalls = <<>>
           /\ h.typing = 0
           /\ h.gen = Absent
           /\ h.appended = <<>>
           /\ chatHistory = h.before
      /\ (~AllowListActive /\ ~Listed(settings.blacklistedUsers, h.user)) =>
           h.typing = 1 \/ h.replyCalls # <<>>

\* a reset command of a sender the allow-list lacks, with a history stored
C9_Witness ==
  \E h \in last :
    /\ h.text = Some(SlashReset)
    /\ AllowListActive
    /\ ~Listed(settings.allowedUsers, h.user)
    /\ ~Listed(settings.blacklistedUsers, h.user)
    /\ getChatHistory(h.chat) # <<>>

\* C10: a text message from a sender on the block-list causes no reply, no
\* generator call and no change of the store, whatever the allow-list is.
C10_BlackList ==
  \A h \in last :
    (IsPresent(h.text) /\ Listed(settings.blacklistedUsers, h.user)) =>
      /\ h.replyCalls = <<>>
      /\ h.gen = Absent
      /\ h.appended = <<>>
      /\ chatHistory = h.before

\* a blocked sender whom the allow-list names
C10_Witness ==
  \E h \in last :
    /\ IsPresent(h.text)
    /\ Listed(settings.blacklistedUsers, h.user)
    /\ Listed(settings.allowedUsers, h.user)

ResetTexts == {SlashReset, SlashResetLoud}
DebugTexts == {SlashDebug}
UnknownTexts == {SlashOther}

\* the sender passes both access lists
Passes(userId) ==
  /\ ~(AllowListActive /\ ~Listed(settings.allowedUsers, userId))
  /\ ~Listed(settings.blacklistedUsers, userId)

\* the invocations in flight and the one that just ended
Invocations == {handlers[slot] : slot \in InFlight} \cup last

\* C11: for an admitted sender, a message that is the prefix followed by
\* 'reset' in any case and with blanks around it empties the chat's history,
\* calls ctx.reply once, with the reset confirmation, and calls no generator.
C11_ResetCommand ==
  \A h \in Invocations :
    (IsPresent(h.text) /\ Val(h.text) \in ResetTexts /\ Passes(h.user)) =>
      /\ h.replyCalls = <<ResetReply>>
      /\ h.gen = Absent
      /\ "generate" \notin {h.events[i] : i \in DOMAIN h.events}
      /\ h.solo => getChatHistory(h.chat) = <<>>

\* '/ RESET ' of an admitted sender was answered, in a chat that had a history
C11_Witness ==
  \E h \in last :
    /\ h.text = Some(SlashResetLoud)
    /\ Passes(h.user)
    /\ HistoryOf(h.before, h.chat) # <<>>
    /\ getChatHistory(h.chat) = <<>>
    /\ h.delivered = <<ResetReply>>

EventsOf(h) == {h.events[i] : i \in DOMAIN h.events}

\* C12: a message whose text starts with the prefix never calls the
\* generator, never sends a typing indicator and never appends to a history;
\* the debug command and an unknown command leave the whole store as it was, and
\* the debug reply reports the length of the chat's history.
C12_CommandsLeaveStore ==
  \A h \in Invocations :
    (IsPresent(h.text) /\ Head(Val(h.text)) = "/") =>
      /\ h.gen = Absent /\ h.handed = Absent
      /\ h.typing = 0
      /\ h.appended = <<>>
      /\ EventsOf(h) \subseteq {"command"}
      /\ (Val(h.text) \in DebugTexts \cup UnknownTexts /\ h.solo) => chatHistory = h.before
      /\ (Val(h.text) \in DebugTexts /\ Passes(h.user) /\ h.solo) =>
           /\ Len(h.replyCalls) = 1
           /\ h.replyCalls[1][1] = "Debug information:"
           /\ h.replyCalls[1][4] = ToString(Len(HistoryOf(h.before, h.chat)))

\* the debug command answered in a chat whose history was truncated before
C12_Witness ==
  \E h \in last :
    /\ h.text = Some(SlashDebug)
    /\ Passes(h.user)
    /\ h.delivered # <<>>
    /\ Len(HistoryOf(h.before, h.chat)) = 2 * maxHistoryLength
    /\ Len(logOf(h.chat)) > 2 * maxHistoryLength
    /\ chatHistory = h.before

\* C13: a prefixed message whose trimmed command is neither 'reset' nor
\* 'debug' in lower case gets one reply, 'Unknown command: ' followed by the
\* trimmed command as typed: '/Foo ' is answered 'Unknown command: Foo'.
C13_UnknownCommand ==
  \A h \in Invocations :
    (h.text = Some(<<"/", "F", "o", "o", " ">>) /\ Passes(h.user)) =>
      h.replyCalls = << <<"Unknown command: ", "F", "o", "o">> >>

\* '/Foo ' of an admitted sender was answered
C13_Witness ==
  \E h \in last :
    /\ h.text = Some(SlashOther)
    /\ Passes(h.user)
    /\ h.delivered = << <<"Unknown command: ", "F", "o", "o">> >>
    /\ h.outcome = "returned"

IsPrefix(a, b) == Len(a) <= Len(b) /\ SubSeq(b, 1, Len(a)) = a

\* the effects of a plain message when every call succeeds
ExpectedEvents ==
  <<"user stored", "typing", "generate">>
    \o (IF settings.responseDelay \in {Absent, Some(0)} THEN <<>> ELSE <<"delay">>)
    \o <<"reply", "reply stored">>

\* C14: while every call of a plain message succeeds its effects happen in
\* the order user text stored, typing indicator, generator, delay (when
\* configured above 0), reply, reply stored; the reply is stored only right
\* after its ctx.reply call, and only when that call succeeded.
C14_EventOrder ==
  \A h \in Invocations :
    /\ (h.outcome # "threw" /\ ~(IsPresent(h.gen) /\ Val(h.gen).rejected)
          /\ EventsOf(h) \cap {"command", "apology"} = {}) =>
         /\ IsPrefix(h.events, ExpectedEvents)
         /\ (h.outcome = "returned" /\ h.events # <<>>) => h.events = ExpectedEvents
    /\ \A i \in DOMAIN h.events :
         h.events[i] = "reply stored" =>
           /\ i > 1 /\ h.events[i - 1] = "reply"
           /\ h.delivered = <<h.response>>
           /\ h.appended = <<Val(h.text), h.response>>
    /\ "apology" \in EventsOf(h) =>
         /\ "reply stored" \notin EventsOf(h)
         /\ h.appended = <<Val(h.text)>>

\* a delayed reply was delivered and stored while another message was in flight
C14_Witness ==
  \E h \in last :
    /\ h.events = <<"user stored", "typing", "generate", "delay", "reply", "reply stored">>
    /\ h.outcome = "returned"
    /\ InFlight # {}

\* C15: what an invocation does for its chat (storing the user's text and
\* the reply, truncating, resetting) leaves every other chat's stored history,
\* and whether it has one, as it was when the invocation started.
C15_OtherChatsUntouched ==
  \A h \in Invocations :
    h.solo =>
      \A other \in Chats \ {h.chat} :
        /\ other \in DOMAIN chatHistory <=> other \in DOMAIN h.before
        /\ HistoryOf(chatHistory, other) = HistoryOf(h.before, other)

\* an exchange was stored for one chat, or the chat was reset, while the
\* other chat had a history
C15_Witness ==
  \E h \in last :
    /\ h.solo
    /\ HistoryOf(chatHistory, h.chat) # HistoryOf(h.before, h.chat)
    /\ \/ Len(h.appended) = 2
       \/ h.text = Some(SlashReset)
    /\ \E other \in Chats \ {h.chat} : HistoryOf(h.before, other) # <<>>

\* the adapter of a provider name and the address it posts to when no
\* endpoint is configured
AdapterOf(provider) ==
  CASE provider = "grok" -> <<"callGrokApi">>
    [] provider = "openai" -> <<"callOpenAiApi">>
    [] provider = "anthropic" -> <<"callAnthropicApi">>
    [] provider = "custom" -> <<"callCustomApi">>
    [] OTHER -> <<>>

AddressOf(provider) ==
  IF IsPresent(llmConfig.endpoint) THEN Val(llmConfig.endpoint)
  ELSE CASE provider = "grok" -> "https://api.grok.x/v1/chat/completions"
         [] provider = "openai" -> "https://api.openai.com/v1/chat/completions"
         [] provider = "anthropic" -> "https://api.anthropic.com/v1/messages"
         [] OTHER -> ""

\* C16: generateResponse calls the adapter of the configured provider and no
\* other, so every request goes to that provider's address; for a provider
\* name outside grok, openai, anthropic and custom it calls no adapter, posts
\* nothing and resolves to the fallback text.
C16_OneAdapter ==
  \A g \in Calls :
    /\ g.result.adapters = AdapterOf(llmConfig.provider)
    /\ Len(g.result.requests) <= 1
    /\ \A i \in DOMAIN g.result.requests :
         g.result.requests[i].url = AddressOf(llmConfig.provider)
    /\ llmConfig.provider \notin {"grok", "openai", "anthropic", "custom"} =>
         /\ g.result.adapters = <<>>
         /\ g.result.requests = <<>>
         /\ g.result.value = FallbackText

\* a call under a provider name that has no adapter has settled
C16_Witness ==
  \E g \in Calls :
    /\ llmConfig.provider = "test-provider"
    /\ g.result.requests = <<>>
    /\ g.result.value = FallbackText
    /\ ~g.result.rejected

\* C17: with provider 'custom' and no endpoint the adapter raises 'Custom API
\* endpoint is required but not provided' without posting anything, and
\* generateResponse resolves to the fallback text.
C17_NoEndpointNoPost ==
  \A g \in Calls :
    (llmConfig.provider = "custom" /\ llmConfig.endpoint = Absent) =>
      /\ g.result.requests = <<>>
      /\ g.result.posts = 0
      /\ g.result.error = "Custom API endpoint is required but not provided"
      /\ ~g.result.rejected
      /\ g.result.value = FallbackText

\* such a call settled although the backend would have answered with a text
C17_Witness ==
  \E g \in Calls :
    /\ llmConfig.provider = "custom" /\ llmConfig.endpoint = Absent
    /\ ~g.http.rejects /\ g.http.data = CustomText
    /\ g.result.value = FallbackText

\* C18: the messages of a grok, openai or anthropic request are the system
\* prompt, then one message per history entry in the same order and with the
\* same content, tagged 'user' at the even indices (0-based) and 'assistant'
\* at the odd ones, then the new message tagged 'user'.
C18_MessagesOfRequest ==
  \A g \in Calls :
    llmConfig.provider \in {"grok", "openai", "anthropic"} =>
      /\ Len(g.result.requests) = 1
      /\ LET messages == g.result.requests[1].messages
             n == Len(g.chatHistory)
         IN /\ Len(messages) = n + 2
            /\ messages[1].role = "system"
            /\ messages[1].content =
                 IF llmConfig.systemPrompt = Absent THEN <<"You are ", "TestBot">>
                 ELSE Val(llmConfig.systemPrompt)
            /\ \A i \in 1..n :
                 /\ messages[i + 1].content = g.chatHistory[i]
                 /\ messages[i + 1].role = IF i % 2 = 1 THEN "user" ELSE "assistant"
            /\ messages[n + 2] = [role |-> "user", content |-> g.userMessage]

\* a request with three history entries that differ, to the Anthropic address
C18_Witness ==
  \E g \in Calls :
    /\ llmConfig.provider = "anthropic"
    /\ g.chatHistory = <<Hello, Bye, Hello>>
    /\ g.userMessage = Bye
    /\ Len(g.result.requests) = 1
    /\ g.result.value = ProviderText

\* a token count, a missing one counted as 0
CountOf(count) == IF count = Absent THEN 0 ELSE Val(count)

\* C19: the usage the Anthropic adapter returns has promptTokens =
\* input_tokens, completionTokens = output_tokens and totalTokens their sum
\* with a missing count taken as 0; without a usage object in the response
\* both counts are absent and the total is 0.
C19_AnthropicUsage ==
  \A g \in Calls :
    (llmConfig.provider = "anthropic" /\ ~g.result.failed) =>
      /\ IsPresent(g.result.usage)
      /\ LET usage == Val(g.result.usage)
             data == g.http.data.usage
         IN IF data = Absent
            THEN usage = [promptTokens |-> Absent, completionTokens |-> Absent,
                          totalTokens |-> 0]
            ELSE /\ usage.promptTokens = Val(data).input_tokens
                 /\ usage.completionTokens = Val(data).output_tokens
                 /\ usage.totalTokens =
                      CountOf(Val(data).input_tokens) + CountOf(Val(data).output_tokens)

\* a response with usage {input_tokens: 10, output_tokens: 20} gave a total of 30
C19_Witness ==
  \E g \in Calls :
    /\ llmConfig.provider = "anthropic"
    /\ g.http.data.usage = Some([input_tokens |-> Some(10), output_tokens |-> Some(20)])
    /\ g.result.usage =
         Some([promptTokens |-> Some(10), completionTokens |-> Some(20), totalTokens |-> 30])

\* C20: every request carries the configured maxTokens and temperature when
\* they are configured, a configured 0 included, and the defaults 1000 and
\* 0.7 (7 tenths) exactly when the setting is absent.
C20_ConfiguredLimitsSent ==
  \A g \in Calls :
    \A i \in DOMAIN g.result.requests :
      LET request == g.result.requests[i]
      IN /\ request.max_tokens =
              IF llmConfig.maxTokens = Absent THEN 1000 ELSE Val(llmConfig.maxTokens)
         /\ request.temperature =
              IF llmConfig.temperature = Absent THEN 7 ELSE Val(llmConfig.temperature)

\* what the configuration file lacks; an empty token, provider, key or
\* address and a port of 0 count as lacking
FileHas(section) ==
  /\ configFile.readable
  /\ IsPresent(configFile.document)
  /\ IsPresent(Val(configFile.document)[section])
FileBot == Val(Val(configFile.document).bot)
FileLlm == Val(Val(configFile.document).llm)
NoToken == ~FileHas("bot") \/ FileBot.token \in {Absent, Some("")}
NoPersonality == ~FileHas("personality")
NoProviderOrKey ==
  ~FileHas("llm") \/ FileLlm.provider = Absent \/ FileLlm.apiKey = Absent
WebhookEnabledInFile ==
  /\ FileHas("bot")
  /\ IsPresent(FileBot.webhook)
  /\ Val(FileBot.webhook).enabled = Some(TRUE)
WebhookIncomplete ==
  /\ WebhookEnabledInFile
  /\ \/ Val(FileBot.webhook).url = Absent
     \/ Val(FileBot.webhook).port \in {Absent, Some(0)}

\* C21: constructing ConfigService raises exactly when the file cannot be
\* loaded or lacks the bot token, the personality section, the llm provider or
\* the llm apiKey, or enables the webhook without both url and port; otherwise
\* it succeeds and holds the sections of the file (polling aside, see C22).
C21_ConstructionFailsIff ==
  configService.state # "none" =>
    /\ configService.state = "failed" <=>
         \/ ~configFile.readable
         \/ NoToken \/ NoPersonality \/ NoProviderOrKey
         \/ WebhookIncomplete
    /\ configService.state = "loaded" =>
         LET config == Val(configService.config)
             document == Val(configFile.document)
         IN /\ config.personality = document.personality
            /\ config.llm = document.llm
            /\ Val(config.bot).token = FileBot.token
            /\ Val(config.bot).webhook = FileBot.webhook

\* a file that enables the webhook with url and port was loaded
C21_Witness ==
  /\ configService.state = "loaded"
  /\ WebhookEnabledInFile
  /\ Val(getBotConfig.webhook).port = Some(8443)

PollingEnabledInFile ==
  /\ FileHas("bot")
  /\ IsPresent(FileBot.polling)
  /\ Val(FileBot.polling).enabled = Some(TRUE)

\* C22: in the configuration of a constructed ConfigService webhook and
\* polling are never both enabled: a file that enables both yields polling
\* disabled and webhook enabled, any other file keeps its polling section; and
\* an enabled webhook has its url and its port.
C22_SnapshotInvariant ==
  configService.state = "loaded" =>
    LET bot == Val(Val(configService.config).bot)
        webhookEnabled == IsPresent(bot.webhook) /\ Val(bot.webhook).enabled = Some(TRUE)
        pollingEnabled == IsPresent(bot.polling) /\ Val(bot.polling).enabled = Some(TRUE)
    IN /\ ~(webhookEnabled /\ pollingEnabled)
       /\ (WebhookEnabledInFile /\ PollingEnabledInFile) =>
            /\ webhookEnabled
            /\ Val(bot.polling).enabled = Some(FALSE)
       /\ ~(WebhookEnabledInFile /\ PollingEnabledInFile) => bot.polling = FileBot.polling
       /\ webhookEnabled =>
            /\ IsPresent(Val(bot.webhook).url)
            /\ IsPresent(Val(bot.webhook).port)

\* a file that enables both modes was loaded
C22_Witness ==
  /\ configService.state = "loaded"
  /\ WebhookEnabledInFile
  /\ PollingEnabledInFile
  /\ Val(getBotConfig.polling).enabled = Some(FALSE)

\* webhook mode is on for the controller: the file enables it and the
\* controller could look it up
WebhookMode ==
  /\ IsPresent(controller)
  /\ Val(controller).lookup = "service"
  /\ WebhookEnabledInFile

\* C23: with the webhook section absent or disabled, or when the controller
\* could not look its configuration up, every webhook request is answered
\* 403 'Webhook mode is disabled' and its update is never dispatched.
C23_DisabledAnswers403 ==
  ~WebhookMode =>
    \A i \in DOMAIN webhooks :
      /\ webhooks[i].responses = <<[status |-> 403, body |-> "Webhook mode is disabled"]>>
      /\ webhooks[i].dispatched = <<>>
      /\ webhooks[i].outcome = "returned"

\* two requests were refused by a controller whose lookup threw, although
\* the file enables the webhook
C23_Witness ==
  /\ IsPresent(controller)
  /\ Val(controller).lookup = "throws"
  /\ WebhookEnabledInFile
  /\ Len(webhooks) = 2
  /\ webhooks[2].responses # <<>>

\* C24: in webhook mode every request dispatches its update once and gets
\* one response, 200 'OK' when the dispatch completed and 500 'Internal
\* Server Error' when it raised; handleWebhook itself never raises.
C24_EnabledAnswersOnce ==
  WebhookMode =>
    \A i \in DOMAIN webhooks :
      LET request == webhooks[i]
      IN /\ request.dispatched = <<request.update>>
         /\ request.outcome # "threw"
         /\ request.completed = Absent => request.responses = <<>>
         /\ request.completed = Some(TRUE) =>
              /\ request.responses = <<[status |-> 200, body |-> "OK"]>>
              /\ request.outcome = "returned"
         /\ request.completed = Some(FALSE) =>
              /\ request.responses = <<[status |-> 500, body |-> "Internal Server Error"]>>
              /\ request.outcome = "returned"

\* of two requests in webhook mode the second was answered 200 before the
\* dispatch of the first raised
C24_Witness ==
  /\ WebhookMode
  /\ Len(webhooks) = 2
  /\ webhooks[1].completed = Some(FALSE)
  /\ webhooks[2].completed = Some(TRUE)
  /\ webhooks[1].update # webhooks[2].update

\* the dumps the debug command can send for a message of chatId from userId
DebugDumps(chatId, userId) ==
  {<<"Debug information:", chatId, userId, ToString(n), BotName, llmConfig.provider>> :
     n \in 0..(maxHistoryLength * 2)}

\* the texts an invocation may pass to ctx.reply
RepliesOf(h) ==
  {ErrorReply}
  \cup (IF IsPresent(h.gen) /\ ~Val(h.gen).rejected THEN {Val(h.gen).value} ELSE {})
  \cup (IF IsPresent(h.text) /\ hasCommandPrefix(Val(h.text))
        THEN {ResetReply, UnknownCommandPrefix \o trim(substring(Val(h.text), 1))}
             \cup DebugDumps(h.chat, h.user)
        ELSE {})

\* C25: every text handleMessage passes to ctx.reply is the text the
\* generator returned, the router's apology, the reset confirmation, the
\* debug dump or 'Unknown command: <command>', never a text taken from a
\* caught error; a denied sender gets no reply.
C25_RepliesAreFixedOrGenerated ==
  \A h \in Invocations :
    /\ \A i \in DOMAIN h.replyCalls : h.replyCalls[i] \in RepliesOf(h)
    /\ ~Passes(h.user) => h.replyCalls = <<>> /\ h.delivered = <<>>

\* the generator rejected a plain message and the apology was delivered
C25_Witness ==
  \E h \in last :
    /\ IsPresent(h.gen)
    /\ Val(h.gen).rejected
    /\ h.replyCalls = <<ErrorReply>>
    /\ h.delivered = <<ErrorReply>>

\* the plain message `text` of the chat of invocation h, from its sender
SameChatMessage(h, text) == [chat |-> h.chat, user |-> h.user, text |-> Some(text)]

\* C26: while the handler of a plain message is suspended at the typing
\* indicator, the generator call or the response delay, a second plain
\* message of the same chat is handled at once (nothing serialises them), so
\* its user text is stored before the reply of the first.
C26_NothingSerialises ==
  \A slot \in Slots :
    LET h == handlers[slot]
    IN (/\ h.pc \in {"typing", "generate", "delay"}
        /\ \E other \in Slots : handlers[other].pc = "idle"
        /\ Appended + ToAppend + 2 <= MaxAppended) =>
         \A text \in PlainTexts \cap Texts :
           \E other \in Slots \ {slot} : ENABLED HandleMessage(other, SameChatMessage(h, text))

\* two overlapping invocations of one chat have ended and left the history
\* user, user, assistant, assistant, which neither sequential order produces
C26_Witness ==
  /\ InFlight = {}
  /\ \E h \in last : ~h.solo /\ h.events[Len(h.events)] = "reply stored"
  /\ "c1" \in DOMAIN roles
  /\ roles["c1"] = <<"user", "user", "assistant", "assistant">>
  /\ chatHistory["c1"] = <<Hello, Hello, ProviderText, ProviderText>>

\* C27: the access lists are consulted before the command prefix: a command
\* of a sender that the allow-list or the block-list rejects is not run; it
\* gets no reply and leaves every history as it was (its 'reset' clears
\* nothing).
C27_DeniedCommandsDoNothing ==
  \A h \in Invocations :
    (IsPresent(h.text) /\ Val(h.text) \in CommandTexts /\ ~Passes(h.user)) =>
      /\ h.pc = "ended"
      /\ h.outcome = "returned"
      /\ h.replyCalls = <<>>
      /\ h.delivered = <<>>
      /\ h.events = <<>>
      /\ h.solo => chatHistory = h.before

\* a denied sender's '/reset' ended in a chat whose history is still there
C27_Witness ==
  \E h \in last :
    /\ h.text = Some(SlashReset)
    /\ ~Passes(h.user)
    /\ h.solo
    /\ getChatHistory(h.chat) # <<>>
    /\ getChatHistory(h.chat) = HistoryOf(h.before, h.chat)

\* the invocation has stored its user text and may still append its reply
Generating(h) == h.pc \in {"typing", "generate", "delay", "reply"}

\* a step in which an invocation starts on a reset command of chatId
ResetStarts(chatId) ==
  \E slot \in Slots :
    /\ handlers[slot].pc = "idle"
    /\ handlers'[slot].pc = "command"
    /\ handlers'[slot].chat = chatId
    /\ handlers'[slot].response = ResetReply

\* a step in which the invocation of `slot` delivers its reply and stores it
ReplyStored(slot) ==
  /\ handlers[slot].pc = "reply"
  /\ handlers'[slot].pc = "idle"
  /\ \E h \in last' : h.events[Len(h.events)] = "reply stored"

\* C28: a reset processed while a generation of the same chat is in flight
\* leaves the history empty, and the reply of that generation is appended to
\* the emptied history when it is delivered: the history is then the reply
\* alone, an assistant turn at index 0.
C28_ReplyAfterReset ==
  [][\A slot \in Slots :
       LET h == handlers[slot]
       IN /\ (Generating(h) /\ ResetStarts(h.chat)) =>
               /\ chatHistory'[h.chat] = <<>>
               /\ roles'[h.chat] = <<>>
               /\ Generating(handlers'[slot])
          /\ (getChatHistory(h.chat) = <<>> /\ ReplyStored(slot)) =>
               /\ chatHistory'[h.chat] = <<h.response>>
               /\ roles'[h.chat] = <<"assistant">>]_vars

\* every invocation has ended; the last one delivered its reply after a
\* reset that overlapped it, and the history is that reply alone
C28_Witness ==
  /\ InFlight = {}
  /\ \E h \in last : ~h.solo /\ h.events[Len(h.events)] = "reply stored"
                     /\ h.appended = <<Hello, ProviderText>>
  /\ "c1" \in DOMAIN roles
  /\ chatHistory["c1"] = <<ProviderText>>
  /\ roles["c1"] = <<"assistant">>

\* the generator of invocation h was LlmService and its provider call failed
ProviderFailed(h) == IsPresent(h.gen) /\ Val(h.gen).real /\ Val(h.gen).failed

\* the newest 2 * maxHistoryLength entries of a list
Kept(list) ==
  IF Len(list) > 2 * maxHistoryLength
  THEN SubSeq(list, Len(list) - 2 * maxHistoryLength + 1, Len(list))
  ELSE list

\* C29: when the provider call fails inside LlmService.generateResponse, the
\* call resolves to the fallback text and BotService handles it as any
\* reply: it is the text passed to ctx.reply and, once delivered, it is
\* appended after the user's text (two entries are added to the history,
\* user then assistant, of which the newest 2 * maxHistoryLength are kept);
\* the apology is sent only if that reply cannot be sent.
C29_FallbackIsNormalReply ==
  \A h \in Invocations :
    ProviderFailed(h) =>
      /\ ~Val(h.gen).rejected
      /\ Val(h.gen).value = FallbackText
      /\ h.pc \in {"delay", "reply"} => h.response = FallbackText
      /\ h.replyCalls # <<>> => h.replyCalls[1] = FallbackText
      /\ h.delivered = <<FallbackText>> =>
           /\ h.replyCalls = <<FallbackText>>
           /\ h.appended = <<Val(h.text), FallbackText>>
           /\ h.events[Len(h.events)] = "reply stored"
           /\ "apology" \notin EventsOf(h)
           /\ h.outcome = "returned"
           /\ getChatHistory(h.chat) =
                Kept(HistoryOf(h.before, h.chat) \o <<Val(h.text), FallbackText>>)
           /\ rolesOf(h.chat)[Len(rolesOf(h.chat)) - 1] = "user"
           /\ rolesOf(h.chat)[Len(rolesOf(h.chat))] = "assistant"
      /\ (h.pc = "ended" /\ "apology" \notin EventsOf(h)) => h.delivered = <<FallbackText>>

\* after an earlier exchange, a provider call failed with a request sent and
\* the fallback text was delivered and stored
C29_Witness ==
  \E h \in last :
    /\ ProviderFailed(h)
    /\ Val(h.gen).posts = 1
    /\ h.delivered = <<FallbackText>>
    /\ HistoryOf(h.before, h.chat) # <<>>
    /\ Len(getChatHistory(h.chat)) = Len(HistoryOf(h.before, h.chat)) + 2

\* C30: a message gets at most one delivered reply: none when it has no
\* text or its sender is denied, exactly one when an admitted text message
\* was handled to the end and its last ctx.reply succeeded (command or
\* generation branch); the apology is attempted only while no reply of the
\* message has been delivered.
C30_AtMostOneReply ==
  \A h \in Invocations :
    /\ Len(h.delivered) <= 1
    /\ (~IsPresent(h.text) \/ ~Passes(h.user)) =>
         h.replyCalls = <<>> /\ h.delivered = <<>> /\ h.typing = 0
    /\ (IsPresent(h.text) /\ Passes(h.user) /\ h.pc = "ended" /\ h.outcome = "returned") =>
         /\ Len(h.delivered) = 1
         /\ h.delivered[1] = h.replyCalls[Len(h.replyCalls)]
    /\ h.outcome = "threw" => h.delivered = <<>>
    /\ h.pc = "apology" => h.delivered = <<>>
    /\ "apology" \in EventsOf(h) => h.delivered \in {<<>>, <<ErrorReply>>}

\* the reply of an admitted message could not be sent and the apology, the
\* second ctx.reply of the invocation, was the one reply delivered
C30_Witness ==
  \E h \in last :
    /\ Passes(h.user)
    /\ h.replyCalls = <<ProviderText, ErrorReply>>
    /\ h.delivered = <<ErrorReply>>
    /\ h.outcome = "returned"

====
